---- MODULE Spec2Model ----
(***************************************************************************)
(* English practice backend: the config-driven /transcribe pipeline, the    *)
(* application factory and the two-tier /analyze feedback engine of        *)
(* src/image_create.py, with the configuration and rule table of           *)
(* src/config.py, and the hardcoded pipeline with its /cleanup route of    *)
(* src/speech_processor.py.                                                *)
(***************************************************************************)
EXTENDS Integers, Sequences, FiniteSets, TLC

VARIABLES pc, upload, original_audio_path, fixed_audio_path, response, files,
          analysis, fallback, unique_id, transcriptions, normalization, model,
          process, cleanup, grammar_corrections, practice_prompts, served

\* the lists imported from config.py as the process holds them, and the
\* responses given to the requests that read them
imported == <<grammar_corrections, practice_prompts, served>>

\* the state outside one /transcribe or /analyze request of the config-driven
\* application
elsewhere == <<unique_id, normalization, model, process, cleanup, imported>>

vars == <<pc, upload, original_audio_path, fixed_audio_path, response, files,
          analysis, fallback, unique_id, transcriptions, normalization, model,
          process, cleanup, grammar_corrections, practice_prompts, served>>

(* ------------------------------ bounds -------------------------------- *)

\* requests the threaded server handles, each on its own thread
NumReqs == 2
\* fragments a transcript given to the fallback is put together from
MaxFragments == 3
\* frames of the audio file given to normalize_audio
MaxFrames == 3
\* create_app calls in one process
MaxCalls == 3
\* requests that read the imported lists
MaxServed == 3

(* --------------------------- configuration ---------------------------- *)

MAX_CONTENT_LENGTH == 16 * 1024 * 1024
MIN_AUDIO_SIZE == 1000
ALLOWED_EXTENSIONS == {"mp3", "wav", "m4a", "ogg"}
AUDIO_UPLOAD_FOLDER == "audio_uploads"

(* ----------------------------- strings -------------------------------- *)

Chars(s) == {SubSeq(s, i, i) : i \in 1..Len(s)}

UpperCase == "ABCDEFGHIJKLMNOPQRSTUVWXYZ"
LowerCase == "abcdefghijklmnopqrstuvwxyz"

\* str.lower() on one character
LowerChar(c) ==
    IF c \in Chars(UpperCase)
    THEN LET i == CHOOSE k \in 1..Len(UpperCase) : SubSeq(UpperCase, k, k) = c
         IN  SubSeq(LowerCase, i, i)
    ELSE c

RECURSIVE lower(_)
lower(s) == IF s = "" THEN "" ELSE LowerChar(SubSeq(s, 1, 1)) \o lower(SubSeq(s, 2, Len(s)))

\* positions of the character c in s
Positions(s, c) == {i \in 1..Len(s) : SubSeq(s, i, i) = c}

Max(S) == CHOOSE m \in S : \A x \in S : x <= m

\* s.rsplit('.', 1)[1]: the text after the last dot (s holds a dot)
rsplit_last(s) == SubSeq(s, Max(Positions(s, ".")) + 1, Len(s))

\* os.path.splitext(name)[0] for a name that does not start with a dot
splitext_root(s) ==
    IF Positions(s, ".") = {} THEN s ELSE SubSeq(s, 1, Max(Positions(s, ".")) - 1)

\* os.path.splitext(name)[1]: the text from the last dot on, empty when the
\* name has no dot or only leading dots
splitext_ext(s) ==
    IF Positions(s, ".") = {} THEN ""
    ELSE LET last == Max(Positions(s, ".")) IN
         IF \A i \in 1..(last - 1) : SubSeq(s, i, i) = "." THEN ""
         ELSE SubSeq(s, last, Len(s))

\* str.startswith and str.endswith
HasPrefix(s, prefix) == Len(s) >= Len(prefix) /\ SubSeq(s, 1, Len(prefix)) = prefix
HasSuffix(s, suffix) ==
    Len(s) >= Len(suffix) /\ SubSeq(s, Len(s) - Len(suffix) + 1, Len(s)) = suffix

\* str.strip("._")
RECURSIVE strip_dots(_)
strip_dots(s) ==
    IF s = "" THEN ""
    ELSE IF SubSeq(s, 1, 1) \in {".", "_"} THEN strip_dots(SubSeq(s, 2, Len(s)))
    ELSE IF SubSeq(s, Len(s), Len(s)) \in {".", "_"} THEN strip_dots(SubSeq(s, 1, Len(s) - 1))
    ELSE s

\* werkzeug secure_filename on names made of ASCII letters, digits and dots:
\* nothing is replaced, leading and trailing dots and underscores are stripped
secure_filename(s) == strip_dots(s)

(* ------------------------- /transcribe inputs -------------------------- *)

Reqs == 1..NumReqs

None == "None"

\* declared filenames of the 'audio' part
Filenames == {"", ".tar.OGG", "wav", "a.wav.exe"}

\* byte lengths of the 'audio' part
FileSizes == {MIN_AUDIO_SIZE - 1, MIN_AUDIO_SIZE, MAX_CONTENT_LENGTH + 1}

NoAudioPart == [has_audio |-> FALSE, filename |-> "", size |-> 0]

Uploads ==
    [has_audio : {TRUE}, filename : Filenames, size : FileSizes]
      \cup {NoAudioPart}

NoUpload == [has_audio |-> FALSE, filename |-> None, size |-> 0, content_length |-> 0]

NoResponse == [status |-> 0, body |-> [pending |-> TRUE]]

(* ------------------------- /transcribe helpers ------------------------- *)

\* allowed_file without the dot test: the name only has to end in an allowed
\* extension
allowed_file_endswith(filename) ==
    \E ext \in ALLOWED_EXTENSIONS :
        /\ Len(filename) >= Len(ext)
        /\ lower(SubSeq(filename, Len(filename) - Len(ext) + 1, Len(filename))) = ext

\* allowed_file(filename)
allowed_file(filename) ==
    /\ Positions(filename, ".") # {}
    /\ lower(rsplit_last(filename)) \in ALLOWED_EXTENSIONS

\* final_filename = f"audio_{timestamp}_{unique_id}_{safe_filename}"; id stands
\* for the pair (timestamp, unique_id)
final_filename(id, filename) == "audio_" \o id \o "_" \o secure_filename(filename)

\* output_filename of convert_to_wav_compatible
fixed_filename(input_path) == splitext_root(input_path) \o "_fixed.wav"

\* the pair (timestamp, unique_id) that datetime.now() and uuid4() give
\* request r
RequestId(r) == unique_id[r]

\* the size checks with only the empty file taken as too small
SizeCheck_empty_only(file_size) ==
    IF file_size > MAX_CONTENT_LENGTH THEN "too_large"
    ELSE IF file_size < 1 THEN "too_small"
    ELSE "ok"

\* file_size > MAX_CONTENT_LENGTH / file_size < MIN_AUDIO_SIZE
SizeCheck(file_size) ==
    IF file_size > MAX_CONTENT_LENGTH THEN "too_large"
    ELSE IF file_size < MIN_AUDIO_SIZE THEN "too_small"
    ELSE "ok"

\* jsonify({'error': msg}), status
ErrorOnly(status, msg) == [status |-> status, body |-> [error |-> msg]]

\* the except Exception branch of transcribe_audio
TranscriptionFailed(cause) ==
    [status |-> 500,
     body |-> [error |-> "Transcription failed: " \o cause, success |-> FALSE]]

Remove(fs, path) == [p \in DOMAIN fs \ {path} |-> fs[p]]
Put(fs, path, content) == [p \in DOMAIN fs \cup {path} |-> IF p = path THEN content ELSE fs[p]]

(* ------------------------------ JSON values ---------------------------- *)

JNull == [kind |-> "null"]
JBool(b) == [kind |-> "bool", bool |-> b]
JNum(n) == [kind |-> "num", num |-> n]
JStr(s) == [kind |-> "str", str |-> s]
JList(items) == [kind |-> "list", items |-> items]
JObj(fields) == [kind |-> "object", fields |-> fields]
EmptyObj == JObj(<<>>)

\* Python truth value of a decoded JSON value (None, False, 0, "", [] and {}
\* are false)
Truthy(v) ==
    CASE v.kind = "null" -> FALSE
      [] v.kind = "bool" -> v.bool
      [] v.kind = "num" -> v.num # 0
      [] v.kind = "str" -> v.str # ""
      [] v.kind = "list" -> Len(v.items) > 0
      [] v.kind = "object" -> DOMAIN v.fields # {}

\* needle in haystack for two str values: case-sensitive substring containment
Contains(haystack, needle) ==
    \E i \in 1..(Len(haystack) - Len(needle) + 1) :
        SubSeq(haystack, i, i + Len(needle) - 1) = needle

\* the `in` test with both sides lower-cased first
PyIn_caseless(needle, v) ==
    CASE v.kind = "str" -> IF Contains(lower(v.str), lower(needle)) THEN "true" ELSE "false"
      [] v.kind = "list" ->
            IF \E i \in 1..Len(v.items) : v.items[i].kind = "str" /\ v.items[i].str = needle
            THEN "true" ELSE "false"
      [] v.kind = "object" -> IF needle \in DOMAIN v.fields THEN "true" ELSE "false"
      [] OTHER -> "TypeError"

\* Python's `needle in v` for a str needle: substring of a str, element of a
\* list, key of a dict, TypeError on None, a bool or a number
PyIn(needle, v) ==
    CASE v.kind = "str" -> IF Contains(v.str, needle) THEN "true" ELSE "false"
      [] v.kind = "list" ->
            IF \E i \in 1..Len(v.items) : v.items[i].kind = "str" /\ v.items[i].str = needle
            THEN "true" ELSE "false"
      [] v.kind = "object" -> IF needle \in DOMAIN v.fields THEN "true" ELSE "false"
      [] OTHER -> "TypeError"

(* ---------------------------- the rule table --------------------------- *)

GRAMMAR_CORRECTIONS == <<
    [wrong |-> "have completed", correct |-> "completed"],
    [wrong |-> "in Coimbatore KIT College", correct |-> "at KIT College in Coimbatore"],
    [wrong |-> "in 2019 from January 1st", correct |-> "on January 1, 2019"],
    [wrong |-> "a fresh air", correct |-> "a fresher"],
    [wrong |-> "100 application development", correct |-> "Android application development"],
    [wrong |-> "under 6 months course", correct |-> "a six-month course"],
    [wrong |-> "we started in my company they changed their language", correct |-> "my company changed its primary language"],
    [wrong |-> "Python Floss", correct |-> "Python Flask"],
    [wrong |-> "landed in", correct |-> "transitioned to"],
    [wrong |-> "I promoted to", correct |-> "I was promoted to"],
    [wrong |-> "had 4 team members", correct |-> "had a team of 4 members"],
    [wrong |-> "I have completed", correct |-> "I completed"],
    [wrong |-> "I am working in", correct |-> "I work at"],
    [wrong |-> "I am doing job", correct |-> "I work"],
    [wrong |-> "good marks", correct |-> "good grades"],
    [wrong |-> "give exam", correct |-> "take an exam"],
    [wrong |-> "passed out", correct |-> "graduated"],
    [wrong |-> "doing masters", correct |-> "pursuing a master's degree"],
    [wrong |-> "marriage function", correct |-> "wedding ceremony"],
    [wrong |-> "I have doubt", correct |-> "I have a question"]
>>

\* PRACTICE_PROMPTS of config.py
PRACTICE_PROMPTS == <<
    "Tell me about your favorite hobby and why you enjoy it.",
    "Describe your typical day from morning to evening.",
    "What's the most interesting place you've ever visited?",
    "Explain how to make your favorite dish.",
    "What are your goals for the next five years?",
    "Describe someone who has influenced your life.",
    "What's your opinion about social media and its impact?",
    "Tell me about a book or movie that changed your perspective.",
    "How do you handle stressful situations in your life?",
    "What would you do if you won a million dollars?",
    "Describe your dream job and why it appeals to you.",
    "What's the biggest challenge you've overcome?",
    "How has technology changed our daily lives?",
    "What advice would you give to your younger self?",
    "Describe a memorable experience from your childhood.",
    "What does success mean to you?",
    "How do you maintain work-life balance?",
    "What skills would you like to learn and why?",
    "Describe your ideal vacation destination.",
    "What motivates you to keep learning new things?"
>>

\* 'from config import ..., PRACTICE_PROMPTS, GRAMMAR_CORRECTIONS, ...' has
\* run and no request has been answered
InitImported ==
    /\ grammar_corrections = GRAMMAR_CORRECTIONS
    /\ practice_prompts = PRACTICE_PROMPTS
    /\ served = <<>>

NoMistakesMessage ==
    "Great job! I didn't detect any of these common grammar mistakes. Keep practicing!"

FeedbackHeader == "### Basic Grammar Feedback:\n\n"

\* f"{found_mistakes}. **Correction:** \"{wrong}\" should be \"{correct}\".\n"
CorrectionLine(n, mistake) ==
    ToString(n) \o ". **Correction:** \"" \o mistake.wrong \o "\" should be \""
        \o mistake.correct \o "\".\n"

ClosingLine(n) ==
    "\n**Keep up the great work!** Focusing on these " \o ToString(n)
        \o " points will make your English even more fluent."

Raised(cause) == [raised |-> TRUE, cause |-> cause]
Returned(value) == [raised |-> FALSE, value |-> value]

\* what analyze_basic_grammar returns after its loop
FinishFeedback(scan) ==
    IF scan.raised THEN scan
    ELSE IF scan.value.found_mistakes = 0
    THEN Returned(NoMistakesMessage)
    ELSE Returned(scan.value.feedback \o ClosingLine(scan.value.found_mistakes))

\* the loop with a break after the first matching rule
RECURSIVE ScanRulesBreak(_, _)
ScanRulesBreak(i, transcript) ==
    IF i > Len(GRAMMAR_CORRECTIONS)
    THEN Returned([feedback |-> FeedbackHeader, found_mistakes |-> 0])
    ELSE LET hit == PyIn(GRAMMAR_CORRECTIONS[i].wrong, transcript) IN
         IF hit = "TypeError" THEN Raised("TypeError: argument is not iterable")
         ELSE IF hit = "true"
         THEN Returned([feedback |-> FeedbackHeader \o CorrectionLine(1, GRAMMAR_CORRECTIONS[i]),
                        found_mistakes |-> 1])
         ELSE ScanRulesBreak(i + 1, transcript)

\* analyze_basic_grammar with a break after the first matching rule
analyze_basic_grammar_first_match(transcript) ==
    FinishFeedback(ScanRulesBreak(1, transcript))

\* the loop with each correction line numbered by its rule's place in the table
RECURSIVE ScanRules_number_by_rule(_, _, _, _)
ScanRules_number_by_rule(i, transcript, feedback, found_mistakes) ==
    IF i > Len(GRAMMAR_CORRECTIONS)
    THEN Returned([feedback |-> feedback, found_mistakes |-> found_mistakes])
    ELSE LET hit == PyIn(GRAMMAR_CORRECTIONS[i].wrong, transcript) IN
         IF hit = "TypeError"
         THEN Raised("TypeError: argument is not iterable")
         ELSE IF hit = "true"
         THEN ScanRules_number_by_rule(i + 1, transcript,
                        feedback \o CorrectionLine(i, GRAMMAR_CORRECTIONS[i]),
                        found_mistakes + 1)
         ELSE ScanRules_number_by_rule(i + 1, transcript, feedback, found_mistakes)

\* the for loop of analyze_basic_grammar from rule i on; the loop reads the
\* list the name GRAMMAR_CORRECTIONS is bound to when it runs
RECURSIVE ScanRules(_, _, _, _)
ScanRules(i, transcript, feedback, found_mistakes) ==
    IF i > Len(grammar_corrections)
    THEN Returned([feedback |-> feedback, found_mistakes |-> found_mistakes])
    ELSE LET hit == PyIn(grammar_corrections[i].wrong, transcript) IN
         IF hit = "TypeError"
         THEN Raised("TypeError: argument is not iterable")
         ELSE IF hit = "true"
         THEN ScanRules(i + 1, transcript,
                        feedback \o CorrectionLine(found_mistakes + 1, grammar_corrections[i]),
                        found_mistakes + 1)
         ELSE ScanRules(i + 1, transcript, feedback, found_mistakes)

\* analyze_basic_grammar(transcript): the feedback text, or the exception the
\* loop raised
analyze_basic_grammar(transcript) ==
    FinishFeedback(ScanRules(1, transcript, FeedbackHeader, 0))

(* ------------------------------ /analyze ------------------------------- *)

\* request.get_json(): the decoded body; werkzeug's BadRequest when the body
\* is declared JSON and does not parse; for a body not declared JSON, None
\* (Flask before 2.1) or UnsupportedMediaType (Flask 2.1 and later)
get_json(request, raises_415) ==
    CASE request.kind = "invalid_json" -> Raised("400 Bad Request")
      [] request.kind = "no_json" ->
            IF raises_415 THEN Raised("415 Unsupported Media Type") ELSE Returned(JNull)
      [] OTHER -> Returned(request.value)

\* result['choices'][0]['message']['content']
message_content(result) ==
    IF result.kind # "object" \/ "choices" \notin DOMAIN result.fields
    THEN Raised("KeyError: 'choices'")
    ELSE LET choices == result.fields.choices IN
         IF choices.kind # "list" \/ Len(choices.items) = 0
         THEN Raised("IndexError")
         ELSE LET choice == choices.items[1] IN
              IF choice.kind # "object" \/ "message" \notin DOMAIN choice.fields
              THEN Raised("KeyError: 'message'")
              ELSE LET message == choice.fields.message IN
                   IF message.kind # "object" \/ "content" \notin DOMAIN message.fields
                   THEN Raised("KeyError: 'content'")
                   ELSE Returned(message.fields.content)

\* the primary tier with an empty message text taken as a failed call
primary_tier_truthy(remote, json_error_is_request_exception) ==
    CASE remote.kind \in {"timeout", "connection_refused", "http_error"} ->
            [kind |-> "request_exception"]
      [] remote.kind = "ok_not_json" ->
            IF json_error_is_request_exception
            THEN [kind |-> "request_exception"]
            ELSE [kind |-> "exception", cause |-> "JSONDecodeError"]
      [] OTHER ->
            LET content == message_content(remote.result) IN
            IF content.raised THEN [kind |-> "exception", cause |-> content.cause]
            ELSE IF ~Truthy(content.value) THEN [kind |-> "request_exception"]
            ELSE [kind |-> "ai", feedback |-> content.value]

\* the inner try block of analyze_speech: requests.post raises a
\* RequestException on a timeout or a refused connection, a response that is
\* not ok is turned into one, response.json() raises on a body that is not
\* JSON (requests.exceptions.JSONDecodeError, a RequestException from requests
\* 2.27 on, a plain ValueError before), and the message text is read out of a
\* decoded body
primary_tier(remote, json_error_is_request_exception) ==
    CASE remote.kind \in {"timeout", "connection_refused", "http_error"} ->
            [kind |-> "request_exception"]
      [] remote.kind = "ok_not_json" ->
            IF json_error_is_request_exception
            THEN [kind |-> "request_exception"]
            ELSE [kind |-> "exception", cause |-> "JSONDecodeError"]
      [] OTHER ->
            LET content == message_content(remote.result) IN
            IF content.raised THEN [kind |-> "exception", cause |-> content.cause]
            ELSE [kind |-> "ai", feedback |-> content.value]

\* the except Exception branch of analyze_speech
AnalysisFailed(cause, remote_called, fallback_called) ==
    [status |-> 500,
     body |-> [error |-> "Analysis failed: " \o cause, success |-> FALSE],
     remote_called |-> remote_called, fallback_called |-> fallback_called]

NoTranscriptProvided ==
    [status |-> 400, body |-> [error |-> "No transcript provided"],
     remote_called |-> FALSE, fallback_called |-> FALSE]

Feedback(feedback, source, fallback_called) ==
    [status |-> 200,
     body |-> [feedback |-> feedback, source |-> source, success |-> TRUE],
     remote_called |-> TRUE, fallback_called |-> fallback_called]

\* analyze_speech: the response, and which tiers ran.  AI_FEEDBACK_PROMPT.format
\* accepts a transcript of any type.
analyze_speech(request, remote, raises_415, json_error_is_request_exception) ==
    LET data == get_json(request, raises_415) IN
    IF data.raised THEN AnalysisFailed(data.cause, FALSE, FALSE)
    ELSE IF ~Truthy(data.value) THEN NoTranscriptProvided
    ELSE IF PyIn("transcript", data.value) = "TypeError"
    THEN AnalysisFailed("TypeError: argument is not iterable", FALSE, FALSE)
    ELSE IF PyIn("transcript", data.value) = "false" THEN NoTranscriptProvided
    ELSE IF data.value.kind # "object"
    THEN AnalysisFailed("TypeError: indices must be integers", FALSE, FALSE)
    ELSE LET transcript == data.value.fields.transcript
             primary == primary_tier(remote, json_error_is_request_exception)
         IN  CASE primary.kind = "ai" -> Feedback(primary.feedback, "ai", FALSE)
               [] primary.kind = "exception" -> AnalysisFailed(primary.cause, TRUE, FALSE)
               [] OTHER ->
                     LET basic_feedback == analyze_basic_grammar(transcript) IN
                     IF basic_feedback.raised
                     THEN AnalysisFailed(basic_feedback.cause, TRUE, TRUE)
                     ELSE Feedback(JStr(basic_feedback.value), "basic", TRUE)

(* --------------------------- /analyze inputs --------------------------- *)

\* values of the 'transcript' field
TranscriptValues ==
    {JStr("I have completed my degree with good marks"), JStr("I passed out in 2019"),
     JStr("I went to school"), JStr(""), JNull, JNum(5), JBool(TRUE), JList(<<>>),
     JList(<<JStr("good marks")>>), JObj([text |-> JStr("give exam")])}

\* decoded request bodies
JsonBodies ==
    {JNull, JBool(FALSE), JBool(TRUE), JNum(0), JNum(5), JStr(""), JStr("hello"),
     JStr("my transcript"), JList(<<>>), JList(<<JStr("hello")>>),
     JList(<<JStr("transcript")>>), EmptyObj, JObj([text |-> JStr("I have doubt")])}
      \cup {JObj([transcript |-> t]) : t \in TranscriptValues}

AnalyzeRequests ==
    {[kind |-> "no_json"], [kind |-> "invalid_json"]}
      \cup {[kind |-> "json", value |-> v] : v \in JsonBodies}

\* a chat-completions body whose first choice carries the message text
Completion(content) ==
    JObj([choices |-> JList(<<JObj([message |-> JObj([role |-> JStr("assistant"),
                                                       content |-> content])])>>)])

MessageTexts == {JStr("1. Say \"I completed\"."), JStr(""), JNull}

\* what the POST to LM_STUDIO_BASE_URL/v1/chat/completions can come to
RemoteOutcomes ==
    {[kind |-> "timeout"], [kind |-> "connection_refused"], [kind |-> "http_error"],
     [kind |-> "ok_not_json"]}
      \cup {[kind |-> "ok", result |-> Completion(c)] : c \in MessageTexts}
      \cup {[kind |-> "ok", result |-> JObj([error |-> JStr("no model loaded")])],
            [kind |-> "ok", result |-> JObj([choices |-> JList(<<>>)])]}


(* -------------------------- application factory ------------------------ *)

\* app.config['WHISPER_MODEL'] of the classes in the config mapping
\* (WHISPER_MODEL is not set in the environment)
WHISPER_MODEL ==
    [development |-> "base", production |-> "base", testing |-> "tiny", default |-> "base"]

\* names create_app is called with: the keys of the config mapping, a name
\* that is not a key, and None
ConfigNames == DOMAIN WHISPER_MODEL \cup {"staging", None}

\* model = None
NotLoaded == [loaded |-> FALSE]

\* the state of the process before the first create_app call: the calls made,
\* the whisper.load_model calls that returned, the instances requests have
\* used, and the environment read at import time
Fresh(flask_env, secret_key) ==
    [calls |-> <<>>, loads |-> 0, used |-> {}, flask_env |-> flask_env,
     secret_key |-> secret_key]

\* how a create_app call ends: the name of the exception it raised, or "app"
Call(config_name, outcome, loaded, mdl) ==
    [config_name |-> config_name, outcome |-> outcome, loaded |-> loaded, model |-> mdl]

\* create_app with the model loaded on every call
create_app_always_load(proc, mdl, config_name, load_ok) ==
    LET name == IF config_name = None THEN proc.flask_env ELSE config_name
        ends(outcome, loaded, m) ==
            [process |-> [proc EXCEPT !.calls = Append(@, Call(name, outcome, loaded, m)),
                                      !.loads = IF loaded THEN @ + 1 ELSE @],
             model |-> m]
    IN  IF name \notin DOMAIN WHISPER_MODEL THEN ends("KeyError", FALSE, mdl)
        ELSE IF name = "production" /\ ~proc.secret_key THEN ends("ValueError", FALSE, mdl)
        ELSE IF load_ok
             THEN ends("app", TRUE, [loaded |-> TRUE, name |-> WHISPER_MODEL[name],
                                     instance |-> proc.loads + 1])
             ELSE ends("load_model raised", FALSE, mdl)

\* create_app(config_name) on the process state proc with the global model
\* mdl: config[config_name] raises KeyError for a name that is not a key,
\* ProductionConfig.init_app raises ValueError without a SECRET_KEY, and
\* whisper.load_model, called only while the global is None, returns a new
\* instance or raises
create_app(proc, mdl, config_name, load_ok) ==
    LET name == IF config_name = None THEN proc.flask_env ELSE config_name
        ends(outcome, loaded, m) ==
            [process |-> [proc EXCEPT !.calls = Append(@, Call(name, outcome, loaded, m)),
                                      !.loads = IF loaded THEN @ + 1 ELSE @],
             model |-> m]
    IN  IF name \notin DOMAIN WHISPER_MODEL THEN ends("KeyError", FALSE, mdl)
        ELSE IF name = "production" /\ ~proc.secret_key THEN ends("ValueError", FALSE, mdl)
        ELSE IF ~mdl.loaded
             THEN IF load_ok
                  THEN ends("app", TRUE, [loaded |-> TRUE, name |-> WHISPER_MODEL[name],
                                          instance |-> proc.loads + 1])
                  ELSE ends("load_model raised", FALSE, mdl)
             ELSE ends("app", FALSE, mdl)

\* the process as the __main__ block leaves it: app = create_app() has
\* returned, with FLASK_ENV and SECRET_KEY not set
Started == create_app(Fresh("default", FALSE), NotLoaded, None, TRUE)

(* ----------------------------------------------------------------------- *)

\* no /cleanup has been handled
NoCleanup == [called |-> FALSE]

\* normalize_audio has not been called on its own
NoNormalization == [called |-> FALSE]

\* the application is up and serves no request
InitElsewhere ==
    /\ normalization = NoNormalization
    /\ model = Started.model
    /\ process = Started.process
    /\ cleanup = NoCleanup
    /\ InitImported

\* no request has arrived and the audio folder is empty
InitTranscribe ==
    /\ pc = [r \in Reqs |-> "idle"]
    /\ upload = [r \in Reqs |-> NoUpload]
    /\ original_audio_path = [r \in Reqs |-> None]
    /\ fixed_audio_path = [r \in Reqs |-> None]
    /\ response = [r \in Reqs |-> NoResponse]
    /\ files = <<>>
    /\ transcriptions = [r \in Reqs |-> 0]

\* the pairs (timestamp, unique_id) the requests are given differ from one
\* request to the next
Init ==
    /\ InitTranscribe
    /\ InitElsewhere
    /\ unique_id = [r \in Reqs |-> ToString(r)]
    /\ analysis = [called |-> FALSE]
    /\ fallback = [called |-> FALSE]

\* a POST /transcribe arrives; its body is the multipart framing (at least one
\* byte) around the 'audio' part, when it has one
Receive(r) ==
    /\ pc[r] = "idle"
    /\ \E u \in Uploads :
          upload' = [upload EXCEPT ![r] =
                        [has_audio |-> u.has_audio, filename |-> u.filename,
                         size |-> u.size, content_length |-> u.size + 1]]
    /\ pc' = [pc EXCEPT ![r] = "validate"]
    /\ UNCHANGED <<original_audio_path, fixed_audio_path, response, files, analysis, fallback, transcriptions,
                 elsewhere>>

\* a return that leaves the handler at once
Return_skip_finally(r, resp) ==
    /\ response' = [response EXCEPT ![r] = resp]
    /\ pc' = [pc EXCEPT ![r] = "done"]

\* a return or a caught exception inside the try block: the response is chosen
\* and control passes to the finally block
Return(r, resp) ==
    /\ response' = [response EXCEPT ![r] = resp]
    /\ pc' = [pc EXCEPT ![r] = "finally"]

\* transcribe_audio up to the size checks.  Flask raises RequestEntityTooLarge
\* on the first access to request.files when the body exceeds
\* app.config['MAX_CONTENT_LENGTH']; the handler's except Exception catches it.
Validate(r) ==
    /\ pc[r] = "validate"
    /\ LET u == upload[r] IN
       IF u.content_length > MAX_CONTENT_LENGTH
       THEN /\ Return(r, TranscriptionFailed("413 Request Entity Too Large"))
            /\ UNCHANGED original_audio_path
       ELSE IF ~u.has_audio
       THEN /\ Return(r, ErrorOnly(400, "No audio file provided"))
            /\ UNCHANGED original_audio_path
       ELSE IF u.filename = ""
       THEN /\ Return(r, ErrorOnly(400, "No file selected"))
            /\ UNCHANGED original_audio_path
       ELSE IF ~allowed_file(u.filename)
       THEN /\ Return(r, ErrorOnly(400, "File type not allowed"))
            /\ UNCHANGED original_audio_path
       ELSE /\ original_audio_path' =
                  [original_audio_path EXCEPT ![r] = final_filename(RequestId(r), u.filename)]
            /\ CASE SizeCheck(u.size) = "too_large" ->
                       Return(r, ErrorOnly(413, "File too large"))
                 [] SizeCheck(u.size) = "too_small" ->
                       Return(r, ErrorOnly(400, "File too small or empty"))
                 [] OTHER ->
                       /\ pc' = [pc EXCEPT ![r] = "save"]
                       /\ UNCHANGED response
    /\ UNCHANGED <<upload, fixed_audio_path, files, analysis, fallback, transcriptions,
                 elsewhere>>

\* audio_file.save(original_audio_path) reads the upload stream to its end: the
\* file is written, or the write raises with the file created or not
Save(r) ==
    /\ pc[r] = "save"
    /\ upload' = [upload EXCEPT ![r] = NoUpload]
    /\ \/ /\ files' = Put(files, original_audio_path[r], "upload")
          /\ pc' = [pc EXCEPT ![r] = "convert"]
          /\ UNCHANGED response
       \/ /\ files' \in {files, Put(files, original_audio_path[r], "partial")}
          /\ Return(r, TranscriptionFailed("save failed"))
    /\ UNCHANGED <<original_audio_path, fixed_audio_path, analysis, fallback, transcriptions,
                 elsewhere>>

\* fixed_audio_path = convert_to_wav_compatible(original_audio_path).  The
\* decode (AudioSegment.from_file) or the export can raise; export opens the
\* output file before it writes the frames.  Either failure is re-raised as
\* RuntimeError and fixed_audio_path keeps its value.
Convert(r) ==
    /\ pc[r] = "convert"
    /\ LET output_path == fixed_filename(original_audio_path[r]) IN
       \/ /\ original_audio_path[r] \in DOMAIN files
          /\ files' = Put(files, output_path, "pcm")
          /\ fixed_audio_path' = [fixed_audio_path EXCEPT ![r] = output_path]
          /\ pc' = [pc EXCEPT ![r] = "normalize"]
          /\ UNCHANGED response
       \/ /\ UNCHANGED <<files, fixed_audio_path>>
          /\ Return(r, TranscriptionFailed("Audio conversion failed: decode"))
       \/ /\ original_audio_path[r] \in DOMAIN files
          /\ files' = Put(files, output_path, "partial")
          /\ UNCHANGED fixed_audio_path
          /\ Return(r, TranscriptionFailed("Audio conversion failed: export"))
    /\ UNCHANGED <<upload, original_audio_path, analysis, fallback, transcriptions,
                 elsewhere>>

\* normalize_audio(fixed_audio_path): silence leaves the file alone, any other
\* audio is rescaled and rewritten; an exception is printed and swallowed,
\* whether sf.read raised it (the file is as it was) or sf.write did after it
\* had opened the file for writing
Normalize(r) ==
    /\ pc[r] = "normalize"
    /\ \/ UNCHANGED files
       \/ /\ fixed_audio_path[r] \in DOMAIN files
          /\ files' = Put(files, fixed_audio_path[r], "normalized")
       \/ /\ fixed_audio_path[r] \in DOMAIN files
          /\ files' = Put(files, fixed_audio_path[r], "partial")
    /\ pc' = [pc EXCEPT ![r] = "transcribe"]
    /\ UNCHANGED <<upload, original_audio_path, fixed_audio_path, response, analysis, fallback, transcriptions,
                 elsewhere>>

\* the handler calls model.transcribe(fixed_audio_path, ...) on the shared
\* model; nothing is acquired before the call
Transcribe(r) ==
    /\ pc[r] = "transcribe"
    /\ pc' = [pc EXCEPT ![r] = "transcribing"]
    /\ transcriptions' = [transcriptions EXCEPT ![r] = @ + 1]
    /\ UNCHANGED <<upload, original_audio_path, fixed_audio_path, response, files, analysis,
                   fallback, elsewhere>>

\* model.transcribe returns and the success response names the persisted
\* upload as its static path
Transcribed_static_original(r) ==
    /\ pc[r] = "transcribing"
    /\ \/ /\ fixed_audio_path[r] \in DOMAIN files
          /\ Return(r, [status |-> 200,
                        body |-> [transcript |-> "text", language |-> "en", success |-> TRUE,
                                  filename |-> original_audio_path[r],
                                  static_path |-> "static/" \o AUDIO_UPLOAD_FOLDER \o "/"
                                                    \o original_audio_path[r]]])
       \/ Return(r, TranscriptionFailed("model error"))
    /\ UNCHANGED <<upload, original_audio_path, fixed_audio_path, files, analysis, fallback,
                   transcriptions, elsewhere>>

\* model.transcribe returns and the success response is built, or it raises
\* (it cannot read a file that is not there)
Transcribed(r) ==
    /\ pc[r] = "transcribing"
    /\ \/ /\ fixed_audio_path[r] \in DOMAIN files
          /\ Return(r, [status |-> 200,
                        body |-> [transcript |-> "text", language |-> "en", success |-> TRUE,
                                  filename |-> original_audio_path[r],
                                  static_path |-> "static/" \o AUDIO_UPLOAD_FOLDER \o "/"
                                                    \o fixed_audio_path[r]]])
       \/ Return(r, TranscriptionFailed("model error"))
    /\ UNCHANGED <<upload, original_audio_path, fixed_audio_path, files, analysis, fallback,
                   transcriptions, elsewhere>>

\* the finally block without the removal of the persisted original
Finally_keep_original(r) ==
    /\ pc[r] = "finally"
    /\ files' =
           IF fixed_audio_path[r] # None /\ fixed_audio_path[r] \in DOMAIN files
           THEN Remove(files, fixed_audio_path[r]) ELSE files
    /\ pc' = [pc EXCEPT ![r] = "done"]
    /\ upload' = [upload EXCEPT ![r] = NoUpload]
    /\ UNCHANGED <<original_audio_path, fixed_audio_path, response, analysis, fallback,
                   transcriptions, elsewhere>>

\* a finally block that deletes without looking: os.remove raises on a path
\* that is None or names no file, and the exception replaces the response
Finally_delete_or_throw(r) ==
    /\ pc[r] = "finally"
    /\ IF /\ original_audio_path[r] # None /\ original_audio_path[r] \in DOMAIN files
          /\ fixed_audio_path[r] # None /\ fixed_audio_path[r] \in DOMAIN files
       THEN /\ files' = Remove(Remove(files, original_audio_path[r]), fixed_audio_path[r])
            /\ UNCHANGED response
       ELSE /\ files' =
                  IF original_audio_path[r] # None /\ original_audio_path[r] \in DOMAIN files
                  THEN Remove(files, original_audio_path[r]) ELSE files
            /\ response' = [response EXCEPT ![r] = ErrorOnly(500, "Internal Server Error")]
    /\ pc' = [pc EXCEPT ![r] = "done"]
    /\ upload' = [upload EXCEPT ![r] = NoUpload]
    /\ UNCHANGED <<original_audio_path, fixed_audio_path, analysis, fallback,
                   transcriptions, elsewhere>>

\* the finally block; the response then leaves the handler and the request
\* context is torn down
Finally(r) ==
    /\ pc[r] = "finally"
    /\ LET afterOriginal ==
               IF original_audio_path[r] # None /\ original_audio_path[r] \in DOMAIN files
               THEN Remove(files, original_audio_path[r]) ELSE files
       IN  files' =
               IF fixed_audio_path[r] # None /\ fixed_audio_path[r] \in DOMAIN afterOriginal
               THEN Remove(afterOriginal, fixed_audio_path[r]) ELSE afterOriginal
    /\ pc' = [pc EXCEPT ![r] = "done"]
    /\ upload' = [upload EXCEPT ![r] = NoUpload]
    /\ UNCHANGED <<original_audio_path, fixed_audio_path, response, analysis, fallback, transcriptions,
                 elsewhere>>

Next ==
    \E r \in Reqs :
        \/ Receive(r)
        \/ Validate(r)
        \/ Save(r)
        \/ Convert(r)
        \/ Normalize(r)
        \/ Transcribe(r)
        \/ Transcribed(r)
        \/ Finally(r)

Spec == Init /\ [][Next]_vars

\* the pairs (timestamp, unique_id): strftime("%Y%m%d_%H%M%S") has a resolution
\* of one second and str(uuid.uuid4())[:8] is 32 random bits, so two requests
\* can be given the same pair
UniqueIds == {ToString(i) : i \in Reqs}

\* as Init, with any pair given to any request
InitAnyId ==
    /\ InitTranscribe
    /\ InitElsewhere
    /\ unique_id \in [Reqs -> UniqueIds]
    /\ analysis = [called |-> FALSE]
    /\ fallback = [called |-> FALSE]

SpecAnyId == InitAnyId /\ [][Next]_vars

(* ------------- the hardcoded pipeline (speech_processor.py) ------------ *)

\* declared filenames and byte lengths of the 'audio' part
HardcodedFilenames == {"", "a.wav", "rec.webm"}
HardcodedSizes == {0, MIN_AUDIO_SIZE - 1, MIN_AUDIO_SIZE}

HardcodedUploads ==
    [has_audio : {TRUE}, filename : HardcodedFilenames, size : HardcodedSizes]
      \cup {NoAudioPart}

\* filename = f"audio_{timestamp}_{unique_id}{original_extension}"
hardcoded_filename(id, filename) == "audio_" \o id \o splitext_ext(filename)

\* the module has been imported: the model is loaded, the audio folder exists
\* and holds a file of another origin, and no request has arrived
InitHardcoded ==
    /\ pc = [r \in Reqs |-> "idle"]
    /\ upload = [r \in Reqs |-> NoUpload]
    /\ original_audio_path = [r \in Reqs |-> None]
    /\ fixed_audio_path = [r \in Reqs |-> None]
    /\ response = [r \in Reqs |-> NoResponse]
    /\ transcriptions = [r \in Reqs |-> 0]
    /\ files = [p \in {"notes.txt"} |-> "other"]
    /\ unique_id = [r \in Reqs |-> ToString(r)]
    /\ model = [loaded |-> TRUE, name |-> "base", instance |-> 1]
    /\ process = Fresh("default", FALSE)
    /\ normalization = NoNormalization
    /\ cleanup = NoCleanup
    /\ InitImported
    /\ analysis = [called |-> FALSE]
    /\ fallback = [called |-> FALSE]

\* a POST /transcribe arrives at the hardcoded application
HardcodedReceive(r) ==
    /\ pc[r] = "idle"
    /\ \E u \in HardcodedUploads :
          upload' = [upload EXCEPT ![r] =
                        [has_audio |-> u.has_audio, filename |-> u.filename,
                         size |-> u.size, content_length |-> u.size + 1]]
    /\ pc' = [pc EXCEPT ![r] = "hc_save"]
    /\ UNCHANGED <<original_audio_path, fixed_audio_path, response, files, analysis, fallback,
                   transcriptions, elsewhere>>

\* a return or a caught exception of the hardcoded handler: the response
\* leaves the handler, which has no finally block
HardcodedReturn(r, resp) ==
    /\ response' = [response EXCEPT ![r] = resp]
    /\ pc' = [pc EXCEPT ![r] = "done"]
    /\ upload' = [upload EXCEPT ![r] = NoUpload]

\* the hardcoded handler up to the size checks: the upload is written to
\* audio_path first and measured on disk afterwards
HardcodedSave(r) ==
    /\ pc[r] = "hc_save"
    /\ LET u == upload[r]
           audio_path == hardcoded_filename(RequestId(r), u.filename)
       IN
       IF ~u.has_audio
       THEN /\ HardcodedReturn(r, ErrorOnly(400, "No audio file provided"))
            /\ UNCHANGED <<original_audio_path, files>>
       ELSE IF u.filename = ""
       THEN /\ HardcodedReturn(r, ErrorOnly(400, "No file selected"))
            /\ UNCHANGED <<original_audio_path, files>>
       ELSE /\ original_audio_path' = [original_audio_path EXCEPT ![r] = audio_path]
            /\ \/ /\ files' \in {files, Put(files, audio_path, "partial")}
                  /\ HardcodedReturn(r, TranscriptionFailed("write failed"))
               \/ /\ files' = Put(files, audio_path, "upload")
                  /\ IF u.size = 0
                     THEN HardcodedReturn(r, TranscriptionFailed("Audio file is empty"))
                     ELSE IF u.size < 1000
                     THEN HardcodedReturn(r, ErrorOnly(400, "Audio file too short"))
                     ELSE /\ pc' = [pc EXCEPT ![r] = "hc_convert"]
                          /\ upload' = [upload EXCEPT ![r] = NoUpload]
                          /\ UNCHANGED response
    /\ UNCHANGED <<fixed_audio_path, analysis, fallback, transcriptions, elsewhere>>

\* fixed_path = convert_to_wav_compatible(audio_path) of the hardcoded
\* application
HardcodedConvert(r) ==
    /\ pc[r] = "hc_convert"
    /\ LET output_path == fixed_filename(original_audio_path[r]) IN
       \/ /\ original_audio_path[r] \in DOMAIN files
          /\ files' = Put(files, output_path, "pcm")
          /\ fixed_audio_path' = [fixed_audio_path EXCEPT ![r] = output_path]
          /\ pc' = [pc EXCEPT ![r] = "hc_normalize"]
          /\ UNCHANGED <<response, upload>>
       \/ /\ UNCHANGED <<files, fixed_audio_path>>
          /\ HardcodedReturn(r, TranscriptionFailed("Audio conversion failed: decode"))
       \/ /\ original_audio_path[r] \in DOMAIN files
          /\ files' = Put(files, output_path, "partial")
          /\ UNCHANGED fixed_audio_path
          /\ HardcodedReturn(r, TranscriptionFailed("Audio conversion failed: export"))
    /\ UNCHANGED <<original_audio_path, analysis, fallback, transcriptions, elsewhere>>

\* normalize_audio(fixed_path) of the hardcoded application
HardcodedNormalize(r) ==
    /\ pc[r] = "hc_normalize"
    /\ \/ UNCHANGED files
       \/ /\ fixed_audio_path[r] \in DOMAIN files
          /\ files' = Put(files, fixed_audio_path[r], "normalized")
       \/ /\ fixed_audio_path[r] \in DOMAIN files
          /\ files' = Put(files, fixed_audio_path[r], "partial")
    /\ pc' = [pc EXCEPT ![r] = "hc_transcribe"]
    /\ UNCHANGED <<upload, original_audio_path, fixed_audio_path, response, analysis, fallback,
                   transcriptions, elsewhere>>

\* the hardcoded handler calls model.transcribe(fixed_path, ...)
HardcodedTranscribe(r) ==
    /\ pc[r] = "hc_transcribe"
    /\ pc' = [pc EXCEPT ![r] = "hc_transcribing"]
    /\ transcriptions' = [transcriptions EXCEPT ![r] = @ + 1]
    /\ UNCHANGED <<upload, original_audio_path, fixed_audio_path, response, files, analysis,
                   fallback, elsewhere>>

\* model.transcribe returns and the success response is built, or it raises
HardcodedTranscribed(r) ==
    /\ pc[r] = "hc_transcribing"
    /\ \/ /\ fixed_audio_path[r] \in DOMAIN files
          /\ HardcodedReturn(r,
                [status |-> 200,
                 body |-> [transcript |-> "text", language |-> "en", success |-> TRUE,
                           filename |-> original_audio_path[r],
                           static_path |-> "static/audio_uploads/" \o original_audio_path[r]]])
       \/ HardcodedReturn(r, TranscriptionFailed("model error"))
    /\ UNCHANGED <<original_audio_path, fixed_audio_path, files, analysis, fallback,
                   transcriptions, elsewhere>>

\* file.startswith('audio_') and file.endswith(('.wav', '.mp3', '.m4a', '.ogg'))
CleanupPattern(file) ==
    /\ HasPrefix(file, "audio_")
    /\ \E suffix \in {".wav", ".mp3", ".m4a", ".ogg"} : HasSuffix(file, suffix)

\* POST /cleanup: every file of the listing that fits the pattern is removed
\* and counted, unless os.remove raises for it
cleanup_old_files ==
    LET listing == DOMAIN files
        matching == {file \in listing : CleanupPattern(file)}
    IN  \E failed \in SUBSET matching :
            /\ files' = [file \in listing \ (matching \ failed) |-> files[file]]
            /\ cleanup' = [called |-> TRUE, status |-> 200,
                           body |-> [message |-> "Cleanup complete",
                                     files_deleted |-> Cardinality(matching \ failed)],
                           listing |-> listing, failed |-> failed,
                           left |-> listing \ (matching \ failed)]
            /\ UNCHANGED <<pc, upload, original_audio_path, fixed_audio_path, response,
                           analysis, fallback, transcriptions, unique_id, normalization,
                           model, process, imported>>

NextHardcoded ==
    \/ \E r \in Reqs :
          \/ HardcodedReceive(r)
          \/ HardcodedSave(r)
          \/ HardcodedConvert(r)
          \/ HardcodedNormalize(r)
          \/ HardcodedTranscribe(r)
          \/ HardcodedTranscribed(r)
    \/ cleanup_old_files

SpecHardcoded == InitHardcoded /\ [][NextHardcoded]_vars

(* ------------------------------- /analyze ------------------------------ *)

\* a POST /analyze is about to be handled: its body, what the remote call
\* will come to, and the versions of Flask and requests in use
InitAnalyze ==
    /\ InitTranscribe
    /\ InitElsewhere
    /\ unique_id = [r \in Reqs |-> ToString(r)]
    /\ analysis \in
          [called : {FALSE}, request : AnalyzeRequests, remote : RemoteOutcomes,
           raises_415 : BOOLEAN, json_error_is_request_exception : BOOLEAN]
    /\ fallback = [called |-> FALSE]

\* the POST /analyze is handled from start to end
AnalyzeSpeech ==
    /\ ~analysis.called
    /\ analysis' =
          [called |-> TRUE, request |-> analysis.request, remote |-> analysis.remote,
           raises_415 |-> analysis.raises_415,
           json_error_is_request_exception |-> analysis.json_error_is_request_exception,
           result |-> analyze_speech(analysis.request, analysis.remote, analysis.raises_415,
                                     analysis.json_error_is_request_exception)]
    /\ UNCHANGED <<pc, upload, original_audio_path, fixed_audio_path, response, files, fallback, transcriptions,
                 elsewhere>>

NextAnalyze == AnalyzeSpeech

SpecAnalyze == InitAnalyze /\ [][NextAnalyze]_vars

(* ------------------------ the fallback on its own ---------------------- *)

\* pieces of speech a transcript is put together from
Fragments ==
    {"I ", "have completed", " my degree", "good marks", "Good Marks", "pass", "ed out",
     "landed in"}

RECURSIVE Concatenations(_)
Concatenations(n) ==
    IF n = 0 THEN {""}
    ELSE LET shorter == Concatenations(n - 1) IN
         shorter \cup {a \o b : a \in shorter, b \in Fragments}

TranscriptTexts == Concatenations(MaxFragments)

\* a transcript is about to be given to the fallback
InitGrammar ==
    /\ InitTranscribe
    /\ InitElsewhere
    /\ unique_id = [r \in Reqs |-> ToString(r)]
    /\ analysis = [called |-> FALSE]
    /\ fallback \in [called : {FALSE}, transcript : TranscriptTexts]

\* analyze_basic_grammar runs on the transcript
BasicGrammar ==
    /\ ~fallback.called
    /\ fallback' = [called |-> TRUE, transcript |-> fallback.transcript,
                    result |-> analyze_basic_grammar(JStr(fallback.transcript))]
    /\ UNCHANGED <<pc, upload, original_audio_path, fixed_audio_path, response, files, analysis, transcriptions,
                 elsewhere>>

NextGrammar == BasicGrammar

SpecGrammar == InitGrammar /\ [][NextGrammar]_vars

(* ------------------ the requests that read the lists ------------------ *)

\* transcripts sent to /analyze: three rules match the first, one the second,
\* none the third
SharedTranscripts ==
    {"I have completed my degree with good marks", "I passed out in 2019",
     "I went to school"}

\* the remote call times out, or answers with a message text
SharedRemotes ==
    {[kind |-> "timeout"], [kind |-> "ok", result |-> Completion(JStr("Well done."))]}

\* get_random_prompt: random.choice(PRACTICE_PROMPTS) picks the i-th prompt
get_random_prompt(i) ==
    [status |-> 200,
     body |-> [prompt |-> practice_prompts[i], total_prompts |-> Len(practice_prompts)]]

\* a GET /prompts is handled
GetRandomPrompt ==
    /\ Len(served) < MaxServed
    /\ \E i \in 1..Len(practice_prompts) :
          served' = Append(served, [route |-> "/prompts", request |-> "GET",
                                    response |-> get_random_prompt(i)])
    /\ UNCHANGED <<pc, upload, original_audio_path, fixed_audio_path, response, files,
                   analysis, fallback, transcriptions, unique_id, normalization, model,
                   process, cleanup, grammar_corrections, practice_prompts>>

\* a POST /analyze whose fallback drops from the list the rules it reported
AnalyzeTranscript_consume_rules ==
    /\ Len(served) < MaxServed
    /\ \E t \in SharedTranscripts, remote \in SharedRemotes :
          LET result == analyze_speech([kind |-> "json",
                                        value |-> JObj([transcript |-> JStr(t)])],
                                       remote, FALSE, TRUE)
              unmatched(mistake) == PyIn(mistake.wrong, JStr(t)) # "true"
          IN  /\ served' = Append(served, [route |-> "/analyze", request |-> t,
                                           response |-> result])
              /\ grammar_corrections' =
                     IF result.fallback_called
                     THEN SelectSeq(grammar_corrections, unmatched)
                     ELSE grammar_corrections
    /\ UNCHANGED <<pc, upload, original_audio_path, fixed_audio_path, response, files,
                   analysis, fallback, transcriptions, unique_id, normalization, model,
                   process, cleanup, practice_prompts>>

\* a POST /analyze with a transcript is handled from start to end: the remote
\* tier answers, or analyze_basic_grammar reads the rule list
AnalyzeTranscript ==
    /\ Len(served) < MaxServed
    /\ \E t \in SharedTranscripts, remote \in SharedRemotes :
          served' = Append(served,
                           [route |-> "/analyze", request |-> t,
                            response |-> analyze_speech([kind |-> "json",
                                                         value |-> JObj([transcript |-> JStr(t)])],
                                                        remote, FALSE, TRUE)])
    /\ UNCHANGED <<pc, upload, original_audio_path, fixed_audio_path, response, files,
                   analysis, fallback, transcriptions, unique_id, normalization, model,
                   process, cleanup, grammar_corrections, practice_prompts>>

NextShared == GetRandomPrompt \/ AnalyzeTranscript

\* the application is up; /prompts and /analyze requests arrive in any order
SpecShared == Init /\ [][NextShared]_vars

(* --------------------- the factory on its own ------------------------- *)

\* the module has been imported and create_app has not been called; FLASK_ENV
\* and SECRET_KEY are as the environment has them
InitFactory ==
    /\ InitTranscribe
    /\ unique_id = [r \in Reqs |-> ToString(r)]
    /\ normalization = NoNormalization
    /\ cleanup = NoCleanup
    /\ InitImported
    /\ analysis = [called |-> FALSE]
    /\ fallback = [called |-> FALSE]
    /\ model = NotLoaded
    /\ process \in {Fresh(flask_env, secret_key) :
                        flask_env \in {"default", "production"}, secret_key \in BOOLEAN}

\* create_app(config_name) is called; whisper.load_model, when it is called,
\* returns or raises
CreateApp ==
    /\ Len(process.calls) < MaxCalls
    /\ \E config_name \in ConfigNames, load_ok \in BOOLEAN :
          LET after == create_app(process, model, config_name, load_ok) IN
          /\ process' = after.process
          /\ model' = after.model
    /\ UNCHANGED <<pc, upload, original_audio_path, fixed_audio_path, response, files,
                   analysis, fallback, unique_id, transcriptions, normalization, cleanup,
                   imported>>

\* a /transcribe request of an app that create_app returned reaches
\* model.transcribe: the handler reads the module global
UseModel ==
    /\ \E i \in 1..Len(process.calls) : process.calls[i].outcome = "app"
    /\ model.loaded
    /\ process' = [process EXCEPT !.used = @ \cup {model.instance}]
    /\ UNCHANGED <<pc, upload, original_audio_path, fixed_audio_path, response, files,
                   analysis, fallback, unique_id, transcriptions, normalization, cleanup,
                   model, imported>>

NextFactory == CreateApp \/ UseModel

SpecFactory == InitFactory /\ [][NextFactory]_vars

\* the create_app calls in which whisper.load_model returned an instance
LoadingCalls == {i \in 1..Len(process.calls) : process.calls[i].loaded}

\* the create_app calls that returned an app
ReturnedApps == {i \in 1..Len(process.calls) : process.calls[i].outcome = "app"}

\* C20 as stated: the model is loaded by the first create_app call only, and
\* every later call and every request reuses that instance.
C20_LoadedByFirstCallOnly ==
    /\ LoadingCalls \subseteq {1}
    /\ \A i \in 2..Len(process.calls) : process.calls[i].model = process.calls[1].model
    /\ process.used \subseteq {1}

\* C20 amended: the model is loaded at most once per process, by the first
\* create_app call that returns an app (a call that raises, for a name that
\* is not in the config mapping, for 'production' without a SECRET_KEY or
\* because the load failed, loads nothing); every later call that returns an
\* app, whatever its configuration, and every request uses that one instance.
C20_LoadedAtMostOnce ==
    /\ process.loads <= 1
    /\ Cardinality(LoadingCalls) = process.loads
    /\ \A i \in LoadingCalls : \A j \in ReturnedApps : i <= j
    /\ ReturnedApps # {} => LoadingCalls # {}
    /\ \A i \in ReturnedApps :
           /\ process.calls[i].model = model
           /\ model.loaded
           /\ model.instance = 1
    /\ process.used \subseteq {1}

\* C20 witness: after a call that raised, a call loaded the 'base' model, a
\* later call for the 'testing' configuration (WHISPER_MODEL 'tiny') got the
\* same instance, and a request has used it.
C20_Witness ==
    /\ Len(process.calls) = 3
    /\ process.calls[1].outcome # "app"
    /\ process.calls[2].loaded
    /\ process.calls[2].model.name = "base"
    /\ process.calls[3].config_name = "testing"
    /\ process.calls[3].outcome = "app"
    /\ process.calls[3].model = process.calls[2].model
    /\ process.used = {1}

(* --------------------------- normalize_audio ---------------------------- *)

\* 16-bit PCM sample values
MonoSamples == {-32768, -1, 0, 16384}
StereoSamples == {-32768, 0, 16384}

RECURSIVE FramesUpTo(_, _)
FramesUpTo(values, n) ==
    IF n = 0 THEN {<<>>}
    ELSE LET shorter == FramesUpTo(values, n - 1) IN
         shorter \cup {Append(f, v) : f \in shorter, v \in values}

\* WAV files: frames of one sample, or of two
AudioFiles ==
    {[channels |-> 1, frames |-> f] :
        f \in FramesUpTo({<<v>> : v \in MonoSamples}, MaxFrames)}
      \cup {[channels |-> 2, frames |-> f] :
               f \in FramesUpTo(StereoSamples \X StereoSamples, MaxFrames)}

Abs(x) == IF x < 0 THEN -x ELSE x

\* the sum of the samples of a frame: np.mean(data, axis=1) times the number
\* of channels; sf.read scales every sample by 1/32768
FrameSum(frame) == IF Len(frame) = 1 THEN frame[1] ELSE frame[1] + frame[2]

\* lrint(n / d) for d > 0: the nearest integer, the even one at a tie
RoundHalfEven(n, d) ==
    LET q == n \div d
        r == n - d * q
    IN  IF 2 * r < d THEN q
        ELSE IF 2 * r > d THEN q + 1
        ELSE IF q % 2 = 0 THEN q ELSE q + 1

\* what normalize_audio did: the file as it left it, and whether it divided,
\* rewrote the file or printed a warning
Normalized(file, divided, written, warning) ==
    [file |-> file, divided |-> divided, written |-> written, warning |-> warning]

\* normalize_audio with the file rewritten whenever it could be read
normalize_audio_always_rewrite(file, read_ok, write_ok) ==
    IF ~read_ok THEN Normalized(file, FALSE, FALSE, TRUE)
    ELSE IF file.frames = <<>> THEN Normalized(file, FALSE, FALSE, TRUE)
    ELSE LET data == [i \in 1..Len(file.frames) |-> FrameSum(file.frames[i])]
             max_abs == Max({Abs(data[i]) : i \in 1..Len(data)})
         IN  IF ~write_ok
             THEN Normalized([channels |-> 1, frames |-> <<>>], TRUE, TRUE, TRUE)
             ELSE Normalized(
                     [channels |-> 1,
                      frames |-> [i \in 1..Len(data) |->
                                     <<IF max_abs = 0 THEN -32768
                                       ELSE RoundHalfEven(32767 * data[i], max_abs)>>]],
                     TRUE, TRUE, FALSE)

\* normalize_audio(audio_path) on a file of the given content: sf.read raises
\* or returns the samples, np.max raises on an empty array, and only a peak
\* above zero leads to the division and to sf.write, which writes one channel
\* of 16-bit samples (the value times 0x7FFF, rounded) or raises after it has
\* opened the file for writing; every exception is printed and swallowed
normalize_audio(file, read_ok, write_ok) ==
    IF ~read_ok THEN Normalized(file, FALSE, FALSE, TRUE)
    ELSE IF file.frames = <<>> THEN Normalized(file, FALSE, FALSE, TRUE)
    ELSE LET data == [i \in 1..Len(file.frames) |-> FrameSum(file.frames[i])]
             max_abs == Max({Abs(data[i]) : i \in 1..Len(data)})
         IN  IF max_abs > 0
             THEN IF ~write_ok
                  THEN Normalized([channels |-> 1, frames |-> <<>>], TRUE, TRUE, TRUE)
                  ELSE Normalized(
                          [channels |-> 1,
                           frames |-> [i \in 1..Len(data) |->
                                          <<RoundHalfEven(32767 * data[i], max_abs)>>]],
                          TRUE, TRUE, FALSE)
             ELSE Normalized(file, FALSE, FALSE, FALSE)

\* normalize_audio is about to be called on a file
InitNormalize ==
    /\ InitTranscribe
    /\ unique_id = [r \in Reqs |-> ToString(r)]
    /\ model = Started.model
    /\ process = Started.process
    /\ cleanup = NoCleanup
    /\ InitImported
    /\ analysis = [called |-> FALSE]
    /\ fallback = [called |-> FALSE]
    /\ normalization \in
          [called : {FALSE}, file : AudioFiles, read_ok : BOOLEAN, write_ok : BOOLEAN]

\* normalize_audio runs on the file
NormalizeAudio ==
    /\ ~normalization.called
    /\ normalization' =
          [called |-> TRUE, file |-> normalization.file, read_ok |-> normalization.read_ok,
           write_ok |-> normalization.write_ok,
           result |-> normalize_audio(normalization.file, normalization.read_ok,
                                      normalization.write_ok)]
    /\ UNCHANGED <<pc, upload, original_audio_path, fixed_audio_path, response, files,
                   analysis, fallback, unique_id, transcriptions, model, process, cleanup,
                   imported>>

NextNormalize == NormalizeAudio

SpecNormalize == InitNormalize /\ [][NextNormalize]_vars

\* every sample of the decoded audio is zero
Silent(file) ==
    /\ file.frames # <<>>
    /\ \A i \in 1..Len(file.frames) : \A c \in 1..Len(file.frames[i]) :
           file.frames[i][c] = 0

\* C18: when the decoded audio is silent, normalize_audio performs no
\* division and does not rewrite the file: the file's contents are the same
\* after the step as before it, and no warning is raised.
C18_SilenceIsLeftAlone ==
    (normalization.called /\ normalization.read_ok /\ Silent(normalization.file)) =>
        normalization.result = Normalized(normalization.file, FALSE, FALSE, FALSE)

\* C18 witness: normalize_audio has run on a silent stereo file of full
\* length, with a write that would have failed, and left it as it was.
C18_Witness ==
    /\ normalization.called
    /\ normalization.read_ok
    /\ ~normalization.write_ok
    /\ Silent(normalization.file)
    /\ normalization.file.channels = 2
    /\ Len(normalization.file.frames) = MaxFrames
    /\ normalization.result.file = normalization.file
    /\ ~normalization.result.warning

(* ----------------------- /transcribe properties ------------------------ *)

\* the files in the audio folder that carry the name prefix of request r
OwnFiles(r) ==
    LET prefix == "audio_" \o RequestId(r) \o "_" IN
    {p \in DOMAIN files : Len(p) >= Len(prefix) /\ SubSeq(p, 1, Len(prefix)) = prefix}

\* request r has been through the validation stage and its upload was not read
Validated(r) == pc[r] # "validate" /\ upload[r] # NoUpload

\* the extension of the claims: the text after the last '.', lower-cased
ExtensionNotAllowed(filename) ==
    \/ Positions(filename, ".") = {}
    \/ lower(rsplit_last(filename)) \notin ALLOWED_EXTENSIONS

\* no 'audio' part, an empty filename, or an extension outside the allow-list
Unacceptable(u) ==
    \/ ~u.has_audio
    \/ u.filename = ""
    \/ ExtensionNotAllowed(u.filename)

\* C1: when the handler has returned, on every exit path, neither the
\* persisted original file nor the derived '_fixed.wav' file of the request
\* exists in the audio folder.
C1_NoRequestFileAfterReturn ==
    \A r \in Reqs :
        (pc[r] = "done" /\ original_audio_path[r] # None) =>
            /\ original_audio_path[r] \notin DOMAIN files
            /\ fixed_filename(original_audio_path[r]) \notin DOMAIN files

\* C4: a request whose audio is smaller than MIN_AUDIO_SIZE is answered with
\* status 400 and nothing is ever written for it: once validated it stands at
\* the finally block with the 400 response, no derived path, and no file of
\* its own in the audio folder for the finally block to delete.
C4_TooSmallLeavesFolderAlone ==
    \A r \in Reqs :
        (Validated(r) /\ upload[r].has_audio /\ upload[r].size < MIN_AUDIO_SIZE) =>
            /\ pc[r] = "finally"
            /\ response[r].status = 400
            /\ fixed_audio_path[r] = None
            /\ OwnFiles(r) = {}

\* C4 witness: a request with an allowed name and less than MIN_AUDIO_SIZE
\* bytes of audio stands at the finally block with the too-small report, its
\* path already generated.
C4_Witness ==
    \E r \in Reqs :
        /\ pc[r] = "finally"
        /\ upload[r].has_audio
        /\ upload[r].size < MIN_AUDIO_SIZE
        /\ response[r] = ErrorOnly(400, "File too small or empty")
        /\ original_audio_path[r] # None

\* C5: an upload larger than MAX_CONTENT_LENGTH is answered with status 413.
C5_OversizeIs413 ==
    \A r \in Reqs :
        (pc[r] = "finally" /\ upload[r].has_audio /\ upload[r].size > MAX_CONTENT_LENGTH) =>
            response[r].status = 413

C7_ErrorBodyHasSuccessFalse ==
    \A r \in Reqs :
        (pc[r] \in {"finally", "done"} /\ response[r].status >= 400) =>
            /\ "error" \in DOMAIN response[r].body
            /\ "success" \in DOMAIN response[r].body
            /\ response[r].body.success = FALSE

\* the response of request r is the 500 report of a failed conversion
ConversionReported(r) ==
    /\ response[r].status = 500
    /\ HasPrefix(response[r].body.error, "Transcription failed: Audio conversion failed")

\* C11: when the conversion step fails (the request leaves it without a
\* derived path), the request goes to the finally block with status 500 and a
\* conversion-error message; a request answered so has never invoked the
\* transcription model, and when its handler has returned the persisted
\* original file is not in the audio folder.
C11_ConversionFailureEndsRequest ==
    /\ [][\A r \in Reqs :
            (pc[r] = "convert" /\ pc'[r] # "convert" /\ fixed_audio_path'[r] = None) =>
                /\ pc'[r] = "finally"
                /\ response'[r].status = 500
                /\ HasPrefix(response'[r].body.error,
                             "Transcription failed: Audio conversion failed")
                /\ response'[r].body.success = FALSE]_vars
    /\ [](\A r \in Reqs :
            (response[r] # NoResponse /\ ConversionReported(r)) =>
                /\ pc[r] \in {"finally", "done"}
                /\ transcriptions[r] = 0
                /\ pc[r] = "done" => original_audio_path[r] \notin DOMAIN files)

\* C11 witness: a request whose conversion failed has returned; its original
\* file had been persisted and is gone.
C11_Witness ==
    \E r \in Reqs :
        /\ pc[r] = "done"
        /\ response[r] # NoResponse
        /\ ConversionReported(r)
        /\ original_audio_path[r] # None
        /\ original_audio_path[r] \notin DOMAIN files
        /\ transcriptions[r] = 0

\* the handler of request r is running
InFlight(r) == pc[r] \notin {"idle", "done"}

\* where a request can go from each position: to the next stage, or to the
\* cleanup step when the stage failed or rejected the request; normalization
\* has no way to the cleanup step
StageSuccessors ==
    [idle |-> {"validate"}, validate |-> {"save", "finally"},
     save |-> {"convert", "finally"}, convert |-> {"normalize", "finally"},
     normalize |-> {"transcribe"}, transcribe |-> {"transcribing"},
     transcribing |-> {"finally"}, finally |-> {"done"}, done |-> {}]

\* C15: each request passes through the stages in the order validate,
\* persist, convert, normalize, transcribe; a stage starts only when the one
\* before it succeeded (the persisted file is there before conversion, the
\* derived file before normalization) or, for transcription, when
\* normalization has ended; a response is chosen once, at the step that leads
\* to the cleanup step, and a success response only by a transcription that
\* returned; the cleanup step is the last step of every request, which then
\* rests with its one outcome (Completed with 200, Failed with 400 or more).
C15_StagesInOrder ==
    /\ [][\A r \in Reqs :
            /\ pc'[r] # pc[r] => pc'[r] \in StageSuccessors[pc[r]]
            /\ pc'[r] = "convert" => original_audio_path'[r] \in DOMAIN files'
            /\ pc'[r] = "normalize" => fixed_audio_path'[r] \in DOMAIN files'
            /\ response'[r] # response[r] =>
                   /\ response[r] = NoResponse
                   /\ pc[r] # "finally" /\ pc'[r] = "finally"
            /\ (pc'[r] = "finally" /\ pc[r] # "finally") => response'[r] # NoResponse
            /\ (response'[r] # response[r] /\ response'[r].status = 200) =>
                   pc[r] = "transcribing"
            /\ pc[r] = "done" =>
                   /\ original_audio_path'[r] = original_audio_path[r]
                   /\ fixed_audio_path'[r] = fixed_audio_path[r]
                   /\ transcriptions'[r] = transcriptions[r]]_vars
    /\ [](\A r \in Reqs :
            /\ response[r].status = 200 => transcriptions[r] = 1
            /\ pc[r] \in {"finally", "done"} <=> response[r] # NoResponse
            /\ response[r] # NoResponse =>
                   response[r].status = 200 \/ response[r].status >= 400)

\* C15 witness: one request has completed and another has failed at the
\* conversion stage, both past the cleanup step.
C15_Witness ==
    \E r1, r2 \in Reqs :
        /\ pc[r1] = "done" /\ response[r1].status = 200 /\ transcriptions[r1] = 1
        /\ pc[r2] = "done" /\ response[r2] # NoResponse /\ ConversionReported(r2)

\* C17: a failure inside normalize_audio never fails the request: the request
\* goes on to model.transcribe, and the file it hands to the model is the
\* converted audio (rescaled when normalization succeeded, as the conversion
\* wrote it when normalization failed).
C17_TranscribesConvertedAudio ==
    \A r \in Reqs :
        pc[r] \in {"transcribe", "transcribing"} =>
            /\ response[r] = NoResponse
            /\ fixed_audio_path[r] \in DOMAIN files
            /\ files[fixed_audio_path[r]] \in {"pcm", "normalized"}

\* C19: at any time at most one request is inside model.transcribe.
C19_OneTranscriptionAtATime ==
    Cardinality({r \in Reqs : pc[r] = "transcribing"}) <= 1

\* the paths a request names its files by: the persisted upload and the
\* derived '_fixed.wav' file
RequestPaths(r) ==
    IF original_audio_path[r] = None THEN {}
    ELSE {original_audio_path[r], fixed_filename(original_audio_path[r])}

\* C13: no two in-flight /transcribe requests ever use the same persisted
\* path or the same derived path.
C13_PathsNeverShared ==
    \A r1, r2 \in Reqs :
        (r1 # r2 /\ InFlight(r1) /\ InFlight(r2)) =>
            RequestPaths(r1) \cap RequestPaths(r2) = {}

\* the persisted file of request r was never created: no path was generated,
\* or the generated path names no file
NeverPersisted(r) ==
    original_audio_path[r] = None \/ original_audio_path[r] \notin DOMAIN files

\* C21: the cleanup step is safe on every path on which a file was never
\* created.  It never changes the response chosen by the earlier step (nothing
\* is raised); for a request rejected or failed before persistence it leaves
\* the audio folder as it is; for a request that failed before a derived path
\* was returned it removes at most the persisted original.
C21_CleanupSafeWithoutFile ==
    [][\A r \in Reqs :
          (pc[r] = "finally" /\ pc'[r] = "done") =>
              /\ response'[r] = response[r]
              /\ (NeverPersisted(r) /\ fixed_audio_path[r] = None) => files' = files
              /\ fixed_audio_path[r] = None =>
                     \A p \in DOMAIN files \ {original_audio_path[r]} :
                         p \in DOMAIN files' /\ files'[p] = files[p]]_vars

\* C21 witness: a request rejected as too small, its path generated and never
\* written, has returned with its 400 response while the persisted upload of
\* another request is in the audio folder.
C21_Witness ==
    \E r1, r2 \in Reqs :
        /\ pc[r1] = "done"
        /\ response[r1] = ErrorOnly(400, "File too small or empty")
        /\ original_audio_path[r1] # None
        /\ fixed_audio_path[r1] = None
        /\ InFlight(r2)
        /\ original_audio_path[r2] \in DOMAIN files

\* C23: on every successful response the 'static_path' field names the
\* derived '_fixed.wav' file of the request, under static/audio_uploads; the
\* cleanup step of that request finds the file and removes it, and when the
\* response is delivered the path names no file in the audio folder.
C23_StaticPathNamesDeletedArtifact ==
    /\ [][\A r \in Reqs :
            (pc[r] = "finally" /\ pc'[r] = "done" /\ response[r].status = 200) =>
                /\ fixed_audio_path[r] \in DOMAIN files
                /\ fixed_audio_path[r] \notin DOMAIN files']_vars
    /\ [](\A r \in Reqs :
            (pc[r] \in {"finally", "done"} /\ response[r].status = 200) =>
                /\ response[r].body.static_path =
                       "static/audio_uploads/" \o fixed_filename(original_audio_path[r])
                /\ HasSuffix(response[r].body.static_path, "_fixed.wav")
                /\ fixed_audio_path[r] = fixed_filename(original_audio_path[r])
                /\ pc[r] = "done" => fixed_audio_path[r] \notin DOMAIN files)

\* C23 witness: a successful response has been delivered; its static path
\* ends in '_fixed.wav' and the folder holds neither file of the request.
C23_Witness ==
    \E r \in Reqs :
        /\ pc[r] = "done"
        /\ response[r].status = 200
        /\ HasSuffix(response[r].body.static_path, "_fixed.wav")
        /\ fixed_audio_path[r] # None
        /\ RequestPaths(r) \cap DOMAIN files = {}

(* ------------------------ imported-list properties --------------------- *)

\* the places in the served sequence of the /analyze requests that the
\* fallback answered
FallbackRuns ==
    {i \in 1..Len(served) :
        /\ served[i].route = "/analyze"
        /\ served[i].response.status = 200
        /\ served[i].response.body.source = "basic"}

\* C22: no request handler changes the grammar rule table or the prompt list,
\* and any two fallback runs on the same transcript, whatever requests were
\* handled before and between them, return the same feedback.
C22_ListsReadOnlyFeedbackRepeatable ==
    /\ grammar_corrections = GRAMMAR_CORRECTIONS
    /\ practice_prompts = PRACTICE_PROMPTS
    /\ \A i, j \in FallbackRuns :
           served[i].request = served[j].request =>
               served[i].response.body.feedback = served[j].response.body.feedback

\* C22 witness: the fallback has answered the same transcript twice, with three
\* corrections each time, and a /prompts request was handled in between.
C22_Witness ==
    /\ Len(served) = 3
    /\ FallbackRuns = {1, 3}
    /\ served[1].request = "I have completed my degree with good marks"
    /\ served[3].request = served[1].request
    /\ served[2].route = "/prompts"
    /\ served[1].response.body.feedback.kind = "str"
    /\ HasSuffix(served[1].response.body.feedback.str,
                 "Focusing on these 3 points will make your English even more fluent.")
    /\ served[3].response.body.feedback = served[1].response.body.feedback

(* -------------------- hardcoded pipeline properties -------------------- *)

\* C12: in the hardcoded pipeline, after any /transcribe call (success, 'too
\* short' rejection, empty-file error, conversion failure or transcription
\* failure) the uploaded file and the derived '_fixed.wav' file of that
\* request are no longer in the audio folder.
C12_HardcodedLeavesNoFile ==
    \A r \in Reqs : pc[r] = "done" => RequestPaths(r) \cap DOMAIN files = {}

\* C14: /cleanup deletes every file of the audio folder that /transcribe
\* generated, except those whose deletion failed, returns a count equal to the
\* number of files it removed, leaves every file outside the pattern
\* untouched, and answers successfully whether or not deletions failed.
C14_CleanupRemovesGenerated ==
    cleanup.called =>
        /\ \A r \in Reqs : \A file \in RequestPaths(r) \cap cleanup.listing :
               file \notin cleanup.failed => file \notin cleanup.left
        /\ cleanup.body.files_deleted = Cardinality(cleanup.listing \ cleanup.left)
        /\ \A file \in cleanup.listing : ~CleanupPattern(file) => file \in cleanup.left
        /\ cleanup.status = 200


(* ------------------------- /analyze properties ------------------------- *)

RemoteFailures == {"timeout", "connection_refused", "http_error"}

\* the request body is a JSON object with a 'transcript' field
CarriesTranscript(request) ==
    /\ request.kind = "json"
    /\ request.value.kind = "object"
    /\ "transcript" \in DOMAIN request.value.fields

\* the source tag of the response, "" when it has none
Source(result) == IF "source" \in DOMAIN result.body THEN result.body.source ELSE ""

\* C2: when the remote call fails, every request body that carries a
\* 'transcript' field is answered 200 with source 'basic' and success true.
C2_RemoteFailureGivesBasic ==
    (analysis.called /\ CarriesTranscript(analysis.request)
        /\ analysis.remote.kind \in RemoteFailures) =>
            /\ analysis.result.status = 200
            /\ Source(analysis.result) = "basic"
            /\ analysis.result.body.success = TRUE

\* C3 as stated: 'basic' is produced only when the primary call raised a
\* connectivity/timeout error or returned a non-success status, and every
\* successful remote response yields source 'ai'.
C3_TiersAsStated ==
    analysis.called =>
        /\ Source(analysis.result) = "basic" => analysis.remote.kind \in RemoteFailures
        /\ (analysis.result.remote_called /\ analysis.remote.kind \in {"ok", "ok_not_json"}) =>
               Source(analysis.result) = "ai"

\* C3 amended: the tiers run in order and never mix; 'basic' is produced only
\* after the primary call raised a RequestException (a connectivity or timeout
\* error, a non-success status, or a success status whose body the requests
\* library could not decode as JSON); every successful remote response whose
\* body carries choices[0].message.content, an empty text included, yields
\* status 200, source 'ai' and that text as the feedback.
C3_TiersInOrder ==
    analysis.called =>
        /\ Source(analysis.result) = "basic" =>
               /\ analysis.result.remote_called
               /\ analysis.result.fallback_called
               /\ \/ analysis.remote.kind \in RemoteFailures
                  \/ /\ analysis.remote.kind = "ok_not_json"
                     /\ analysis.json_error_is_request_exception
        /\ Source(analysis.result) = "ai" =>
               /\ analysis.result.remote_called
               /\ ~analysis.result.fallback_called
        /\ \A text \in MessageTexts :
               (/\ analysis.result.remote_called
                /\ analysis.remote.kind = "ok"
                /\ analysis.remote.result = Completion(text)) =>
                    /\ analysis.result.status = 200
                    /\ Source(analysis.result) = "ai"
                    /\ analysis.result.body.feedback = text

\* C3 witness: a successful remote response with an empty message text was
\* answered from the primary tier.
C3_Witness ==
    /\ analysis.called
    /\ analysis.remote.kind = "ok"
    /\ analysis.remote.result = Completion(JStr(""))
    /\ Source(analysis.result) = "ai"
    /\ analysis.result.body.feedback = JStr("")

\* C10: /analyze answers 400 whenever the request carries no transcript (no
\* JSON body, invalid JSON, an empty JSON value, no 'transcript' key), and 500
\* only after a transcript was obtained.
C10_NoTranscriptIs400 ==
    analysis.called =>
        /\ ~CarriesTranscript(analysis.request) => analysis.result.status = 400
        /\ analysis.result.status = 500 => CarriesTranscript(analysis.request)

(* ------------------------- fallback properties ------------------------- *)

Rules == 1..Len(GRAMMAR_CORRECTIONS)

\* the rules whose wrong-phrase is a case-sensitive substring of the text
MatchingRules(text) == {i \in Rules : Contains(text, GRAMMAR_CORRECTIONS[i].wrong)}

\* how many times pattern occurs in text
Occurrences(text, pattern) ==
    Cardinality({i \in 1..(Len(text) - Len(pattern) + 1) :
                    SubSeq(text, i, i + Len(pattern) - 1) = pattern})

\* the text of a correction line after its number
PairText(mistake) ==
    ". **Correction:** \"" \o mistake.wrong \o "\" should be \"" \o mistake.correct \o "\".\n"

\* C8: for a transcript that contains none of the wrong-phrases as a
\* case-sensitive substring, the fallback feedback is exactly the fixed
\* no-mistakes message.
C8_NoMatchGivesFixedMessage ==
    (fallback.called /\ MatchingRules(fallback.transcript) = {}) =>
        fallback.result = Returned(NoMistakesMessage)

\* C8 witness: a transcript that holds a wrong-phrase only in another case was
\* given the fixed message.
C8_Witness ==
    /\ fallback.called
    /\ MatchingRules(fallback.transcript) = {}
    /\ MatchingRules(lower(fallback.transcript)) # {}
    /\ fallback.result = Returned(NoMistakesMessage)

\* C9 as stated: when the transcript contains a rule's wrong-phrase, the
\* feedback holds exactly one numbered correction line, and it names that
\* rule's pair.
C9_ExactlyOneLine ==
    \A i \in Rules :
        (fallback.called /\ i \in MatchingRules(fallback.transcript)) =>
            /\ ~fallback.result.raised
            /\ Occurrences(fallback.result.value, ". **Correction:** ") = 1
            /\ Occurrences(fallback.result.value, PairText(GRAMMAR_CORRECTIONS[i])) = 1

\* C9 amended: when the transcript contains a rule's wrong-phrase, exactly one
\* numbered correction line of the feedback names that rule's pair (the
\* feedback may hold further lines, one for each other rule that matches).
C9_OneLinePerMatchingRule ==
    \A i \in Rules :
        (fallback.called /\ i \in MatchingRules(fallback.transcript)) =>
            /\ ~fallback.result.raised
            /\ Occurrences(fallback.result.value, PairText(GRAMMAR_CORRECTIONS[i])) = 1
            /\ \E n \in Rules :
                  Contains(fallback.result.value, CorrectionLine(n, GRAMMAR_CORRECTIONS[i]))

\* C9 witness: the fallback ran on a transcript that contains the wrong-phrases
\* of two rules.
C9_Witness ==
    /\ fallback.called
    /\ Cardinality(MatchingRules(fallback.transcript)) >= 2
    /\ ~fallback.result.raised

\* the rules of S in table order
RECURSIVE InTableOrder(_)
InTableOrder(S) ==
    IF S = {} THEN <<>>
    ELSE LET first == CHOOSE i \in S : \A j \in S : i <= j
         IN  <<first>> \o InTableOrder(S \ {first})

\* the correction lines for the rules order[from..], numbered from `from` on
RECURSIVE NumberedLines(_, _)
NumberedLines(order, from) ==
    IF from > Len(order) THEN ""
    ELSE ToString(from) \o PairText(GRAMMAR_CORRECTIONS[order[from]])
            \o NumberedLines(order, from + 1)

\* C16: when k >= 1 table rules have their wrong-phrase in the transcript as
\* a case-sensitive substring (overlapping rules each count), the feedback is
\* the header, then one correction line per matching rule, in table order and
\* numbered 1..k, then the closing line that reports k.
C16_NumberedInTableOrder ==
    (fallback.called /\ MatchingRules(fallback.transcript) # {}) =>
        LET order == InTableOrder(MatchingRules(fallback.transcript))
            k == Cardinality(MatchingRules(fallback.transcript))
        IN  /\ Len(order) = k
            /\ fallback.result =
                   Returned(FeedbackHeader \o NumberedLines(order, 1)
                      \o "\n**Keep up the great work!** Focusing on these " \o ToString(k)
                      \o " points will make your English even more fluent.")

\* C16 witness: the fallback ran on a transcript in which three rules match,
\* the overlapping 'have completed' and 'I have completed' among them.
C16_Witness ==
    /\ fallback.called
    /\ {1, 12} \subseteq MatchingRules(fallback.transcript)
    /\ Cardinality(MatchingRules(fallback.transcript)) = 3
    /\ ~fallback.result.raised
    /\ Contains(fallback.result.value, "3" \o PairText(GRAMMAR_CORRECTIONS[15]))

====
